---- MODULE Spec2Model ----
(***************************************************************************)
(* Recognition event controller of CameraTimeCard                          *)
(* (facial_recognition_advanced.py): the cooldown ledger, the failure      *)
(* window and lockout of the 'unknown' scope, the work-window policy, the  *)
(* submission with retries and the per-face decision of                    *)
(* process_recognition, driven by the capture loop recognize_faces.        *)
(*                                                                         *)
(* Time is counted in ticks of twenty minutes, so the hour of              *)
(* register_failed_attempt is 3 ticks; RECOGNITION_COOLDOWN, LOCKOUT_TIME, *)
(* MAX_FAILED_ATTEMPTS and the work window are configured values           *)
(* (environment variables / custom_config.py) chosen small.                *)
(*                                                                         *)
(* Spec is the capture loop with the submission attempt by attempt,        *)
(* SpecConc two tasks over the same ledgers, SpecFaces the capture loop    *)
(* face by face with the gallery and the encoding cache, SpecBackend the   *)
(* store's POST /api/timecard (timecard_backend.py) request by request,    *)
(* SpecRequests the same endpoint served by two handler threads statement  *)
(* by statement, SpecNotify the loop under every notification setting,     *)
(* SpecMenu the loop left for main's menu and entered again, SpecStaff the *)
(* loop over a gallery with one more employee, SpecCalls the matcher's     *)
(* test and is_work_hours applied to every input.                          *)
(***************************************************************************)
EXTENDS Integers, Sequences, FiniteSets, TLC

\* ---------------------------------------------------------------- bounds
MaxTime == 3
MaxFaces == 2
MaxWindow == 4
MaxStore == 2
MaxCards == 3
MaxStamp == 2

\* ---------------------------------------------------------- configuration
RECOGNITION_COOLDOWN == 2
MAX_FAILED_ATTEMPTS == 3
LOCKOUT_TIME == 1
OneHour == 3
WORK_START_TIME == 1
WORK_END_TIME == 2
FACE_RECOGNITION_TOLERANCE == 1
max_retries == 3
MAX_CACHE_SIZE == 2

None == -1
Tasks == {1, 2}

\* the gallery loaded by load_known_faces: ids and names are free text typed
\* at registration, so the id 'unknown' is one an employee can have
known_ids == <<"E1", "unknown">>
known_names == <<"Ana", "Bia">>
Gallery == 1..Len(known_ids)
Distances == 0..2

COLOR_RECOGNIZED == "green"
COLOR_UNKNOWN == "red"
COLOR_COOLDOWN == "yellow"

VARIABLES
    now,              \* datetime.now(), in ticks
    allow_after_hours,\* Config.ALLOW_AFTER_HOURS
    last_recognition, \* self.last_recognition: employee id -> time
    failed_attempts,  \* self.failed_attempts: key -> list of times
    locked_until,     \* self.locked_until: key -> time
    store,            \* events the store answered 200 to, in order
    pc,               \* per task: position in recognize_faces
    current_time,     \* per task: current_time of process_recognition
    nfaces,           \* per task: faces of the frame still to process
    cur,              \* per task: the face being submitted
    resps,            \* per task: store answers of the running submission so far
    pauses,           \* per task: time.sleep(1) calls of the running submission so far
    outcome,          \* the result of the face whose processing ended in the last step, if any
    gCool,            \* the can_register_again call of the last step, if any
    gLock,            \* the is_employee_locked call of the last step, if any
    gFail,            \* the register_failed_attempt call of the last step, if any
    known_faces,      \* self.known_faces: the encodings of the loaded gallery
    encoding_cache,   \* self.encoding_cache: None, or fingerprint -> (name, employee id)
    gMatch,           \* the identity resolution of the last step, if any
    gRetry,           \* the identity whose latest observation ended SUBMIT_FAILED, if any
    employees,        \* the store's Employee table: id -> name
    timecards,        \* the store's TimeCard table, in the order of insertion
    response,         \* the store's answer to the last request, if any
    notify_on_first_entry, \* config.NOTIFY_ON_FIRST_ENTRY
    webhook_url,      \* whether config.WEBHOOK_URL is set
    gNotify,          \* the send_notification call of the last step, if any
    gStats,           \* the statistics display of the last step, if any
    call,             \* a function application: the function and its arguments
    returned,         \* what the application returned, once it was made
    handlers          \* per request handler of the store: its position and locals

vars == <<now, allow_after_hours, last_recognition, failed_attempts, locked_until,
          store, pc, current_time, nfaces, cur, resps, pauses, outcome,
          gCool, gLock, gFail, known_faces, encoding_cache, gMatch, gRetry,
          employees, timecards, response, notify_on_first_entry, webhook_url,
          gNotify, gStats, call, returned, handlers>>

\* what the capture loop's steps below never touch
matching == <<known_faces, encoding_cache, gRetry>>
backend == <<employees, timecards, response>>
\* the capture loop's own state
capture == <<now, allow_after_hours, last_recognition, failed_attempts, locked_until,
             store, pc, current_time, nfaces, cur, resps, pauses, outcome,
             gCool, gLock, gFail, gMatch, gNotify, gStats>>
\* the settings, the function applications and the store's request handlers
rest == <<notify_on_first_entry, webhook_url, call, returned, handlers>>

\* ------------------------------------------------------------ dictionaries
Put(f, k, v) == [x \in (DOMAIN f) \cup {k} |-> IF x = k THEN v ELSE f[x]]
Del(f, k) == [x \in (DOMAIN f) \ {k} |-> f[x]]
Get(f, k, d) == IF k \in DOMAIN f THEN f[k] ELSE d
EmptyDict == [x \in {} |-> 0]

\* ------------------------------------------------------------- the ledgers
\* is_work_hours with the end bound excluded
is_work_hours_of_before_end(start, end, t) ==
    IF start = None \/ end = None THEN TRUE ELSE start <= t /\ t < end

\* is_work_hours 201-210 for any setting of the two bounds, None for a bound
\* that is missing or not set: both bounds inclusive
is_work_hours_of(start, end, t) ==
    IF start = None \/ end = None THEN TRUE ELSE start <= t /\ t <= end

\* is_work_hours under the configured window
is_work_hours(t) == is_work_hours_of(WORK_START_TIME, WORK_END_TIME, t)

\* is_employee_locked with the expiry test written >= : the lockout already
\* ends at unlockAt itself
is_employee_locked_expires_early(lu, fa, employee_id, t) ==
    IF employee_id \notin DOMAIN lu
    THEN [ret |-> FALSE, locked_until |-> lu, failed_attempts |-> fa]
    ELSE IF t >= lu[employee_id]
         THEN [ret |-> FALSE,
               locked_until |-> Del(lu, employee_id),
               failed_attempts |-> Del(fa, employee_id)]
         ELSE [ret |-> TRUE, locked_until |-> lu, failed_attempts |-> fa]

\* is_employee_locked: the answer and the two dictionaries after the call
is_employee_locked(lu, fa, employee_id, t) ==
    IF employee_id \notin DOMAIN lu
    THEN [ret |-> FALSE, locked_until |-> lu, failed_attempts |-> fa]
    ELSE IF t > lu[employee_id]
         THEN [ret |-> FALSE,
               locked_until |-> Del(lu, employee_id),
               failed_attempts |-> Del(fa, employee_id)]
         ELSE [ret |-> TRUE, locked_until |-> lu, failed_attempts |-> fa]

\* can_register_again: lock check first, then the cooldown
can_register_again(lr, lu, fa, employee_id, t) ==
    LET l == is_employee_locked(lu, fa, employee_id, t) IN
    [ret |-> IF l.ret THEN FALSE
             ELSE IF employee_id \in DOMAIN lr
                  THEN t - lr[employee_id] >= RECOGNITION_COOLDOWN
                  ELSE TRUE,
     locked_until |-> l.locked_until,
     failed_attempts |-> l.failed_attempts]

\* register_failed_attempt with the pruning test written >= : a failure exactly
\* one hour old still counts
register_failed_attempt_keeps_hour_old(lu, fa, t) ==
    LET old == Get(fa, "unknown", <<>>)
        app == Append(old, t)
        one_hour_ago == t - OneHour
        Recent(attempt) == attempt >= one_hour_ago
        pruned == SelectSeq(app, Recent)
    IN [failed_attempts |-> Put(fa, "unknown", pruned),
        locked_until |-> IF Len(pruned) >= MAX_FAILED_ATTEMPTS
                         THEN Put(lu, "unknown", t + LOCKOUT_TIME)
                         ELSE lu]

\* register_failed_attempt that trips the lockout only when none is running
register_failed_attempt_no_extension(lu, fa, t) ==
    LET old == Get(fa, "unknown", <<>>)
        app == Append(old, t)
        one_hour_ago == t - OneHour
        Recent(attempt) == attempt > one_hour_ago
        pruned == SelectSeq(app, Recent)
    IN [failed_attempts |-> Put(fa, "unknown", pruned),
        locked_until |-> IF Len(pruned) >= MAX_FAILED_ATTEMPTS
                            /\ ~("unknown" \in DOMAIN lu /\ t <= lu["unknown"])
                         THEN Put(lu, "unknown", t + LOCKOUT_TIME)
                         ELSE lu]

\* register_failed_attempt that prunes the window and tests the threshold but
\* never appends the new failure
register_failed_attempt_records_nothing(lu, fa, t) ==
    LET old == Get(fa, "unknown", <<>>)
        one_hour_ago == t - OneHour
        Recent(attempt) == attempt > one_hour_ago
        pruned == SelectSeq(old, Recent)
    IN [failed_attempts |-> Put(fa, "unknown", pruned),
        locked_until |-> IF Len(pruned) >= MAX_FAILED_ATTEMPTS
                         THEN Put(lu, "unknown", t + LOCKOUT_TIME)
                         ELSE lu]

\* register_failed_attempt: append, prune to the last hour, trip the lockout
register_failed_attempt(lu, fa, t) ==
    LET old == Get(fa, "unknown", <<>>)
        app == Append(old, t)
        one_hour_ago == t - OneHour
        Recent(attempt) == attempt > one_hour_ago
        pruned == SelectSeq(app, Recent)
    IN [failed_attempts |-> Put(fa, "unknown", pruned),
        locked_until |-> IF Len(pruned) >= MAX_FAILED_ATTEMPTS
                         THEN Put(lu, "unknown", t + LOCKOUT_TIME)
                         ELSE lu]

\* ------------------------------------------------------------ the matcher
\* np.argmin: the first index of the minimum distance
argmin(d) == CHOOSE i \in DOMAIN d :
                 /\ \A j \in DOMAIN d : d[i] <= d[j]
                 /\ \A j \in DOMAIN d : d[j] = d[i] => i <= j

\* lines 364-381: the gallery index the face resolves to, 0 for Desconhecido
resolve(matches, face_distances) ==
    IF Len(known_ids) > 0
    THEN LET best_match_index == argmin(face_distances) IN
         IF matches[best_match_index]
            /\ face_distances[best_match_index] < FACE_RECOGNITION_TOLERANCE
         THEN best_match_index
         ELSE 0
    ELSE 0

\* what the matcher's answers (compare_faces, face_distance) can resolve a face to
Resolutions ==
    {resolve(matches, face_distances) :
        matches \in [Gallery -> BOOLEAN], face_distances \in [Gallery -> Distances]}

\* the gallery with every registered employee: encoding i belongs to known_ids[i]
AllFaces == [i \in Gallery |-> i]
\* the galleries load_known_faces can load: no encodings file (or an unreadable
\* one) leaves the gallery empty
Galleries == {<<>>, AllFaces}

\* main 722-731 and register_employee_from_camera accept any name and id that
\* are not empty: the staff with one more employee, registered under the name
\* process_recognition gives to a face it did not identify
staff_ids == known_ids \o <<"E3">>
staff_names == known_names \o <<"Desconhecido">>
\* the gallery with every employee of the staff
StaffFaces == [i \in 1..Len(staff_ids) |-> i]

\* line 354 with the test left out: the matcher is called whatever the gallery
has_known_faces_unchecked(known) == TRUE

\* line 354: the matcher is called only for a gallery that is not empty
has_known_faces(known) == Len(known) > 0

\* match_face with the tolerance test written <= : a distance equal to the
\* tolerance is accepted
match_face_at_tolerance(known, matches, face_distances) ==
    IF has_known_faces(known) /\ Len(face_distances) > 0
    THEN LET best_match_index == argmin(face_distances) IN
         IF matches[best_match_index]
            /\ face_distances[best_match_index] <= FACE_RECOGNITION_TOLERANCE
         THEN best_match_index
         ELSE 0
    ELSE 0

\* lines 354-381 for a loaded gallery: the index the face resolves to, 0 for
\* Desconhecido; argmin is evaluated only over distances that are not empty
match_face(known, matches, face_distances) ==
    IF has_known_faces(known) /\ Len(face_distances) > 0
    THEN LET best_match_index == argmin(face_distances) IN
         IF matches[best_match_index]
            /\ face_distances[best_match_index] < FACE_RECOGNITION_TOLERANCE
         THEN best_match_index
         ELSE 0
    ELSE 0

\* what the matcher's answers can resolve a face to, for a loaded gallery
ResolutionsOf(known) ==
    {match_face(known, matches, face_distances) :
        matches \in [DOMAIN known -> BOOLEAN],
        face_distances \in [DOMAIN known -> Distances]}
ResolutionTable == [known \in Galleries \cup {StaffFaces} |-> ResolutionsOf(known)]

\* ---------------------------------------------------------------- the cache
\* the values of hash(face_encoding.tobytes())
Fingerprints == {1, 2, 3}

\* line 81: None when CACHE_ENCODINGS is off, the empty dict when it is on
NoneCache == [is_none |-> TRUE, items |-> EmptyDict]
EmptyCache == [is_none |-> FALSE, items |-> EmptyDict]

\* the truth test written "is not None": an empty dict counts as a cache
truthy_unless_none(cache) == ~cache.is_none

\* bool(self.encoding_cache) of lines 356 and 384: None and the empty dict are
\* both false
truthy(cache) == ~cache.is_none /\ DOMAIN cache.items # {}

\* lines 356-362: the lookup, made only below capacity
cache_lookup(cache, encoding_key) ==
    IF /\ truthy(cache)
       /\ Cardinality(DOMAIN cache.items) < MAX_CACHE_SIZE
       /\ encoding_key \in DOMAIN cache.items
    THEN [hit |-> TRUE, value |-> cache.items[encoding_key]]
    ELSE [hit |-> FALSE, value |-> <<"", "">>]

\* lines 384-386: the insert, which tests the cache's truth and nothing else
cache_insert(cache, encoding_key, name, employee_id) ==
    IF truthy(cache)
    THEN [cache EXCEPT !.items = Put(@, encoding_key, <<name, employee_id>>)]
    ELSE cache

\* the decision with the work-window test made before the cooldown test
decision_hours_first(can, work, allow) ==
    IF ~work /\ ~allow
    THEN "OUT_OF_HOURS"
    ELSE IF can THEN "SUBMIT" ELSE "COOLDOWN"

\* the decision without the work-window test
decision_ignores_hours(can, work, allow) ==
    IF can THEN "SUBMIT" ELSE "COOLDOWN"

\* lines 389-418: what is done with a resolved face
decision(can, work, allow) ==
    IF can
    THEN IF ~work /\ ~allow THEN "OUT_OF_HOURS" ELSE "SUBMIT"
    ELSE "COOLDOWN"

\* the status test left out: every answer that arrives counts as success
is_success_any_answer(resp) == resp # "error"

\* lines 306-316: how one store answer is handled
is_success(resp) == resp \in {"ok_entrada", "ok_saida"}
sleeps_after(resp, attempt) == resp = "error" /\ attempt < max_retries - 1

Responses == {"ok_entrada", "ok_saida", "non200", "error"}

\* lines 403-405 with the entry type not looked at
first_entry_any_type(resp, enabled) == enabled

\* lines 403-405: the accepted event is notified when NOTIFY_ON_FIRST_ENTRY is
\* on and the store answered entry type 'entrada'
first_entry(resp, enabled) == enabled /\ resp = "ok_entrada"

\* what the webhook can do with a post: answer 200, answer something else, or
\* fail (connection error, timeout)
WebhookAnswers == {"200", "non200", "error"}

\* send_notification 320-342: nothing is posted without a WEBHOOK_URL; the
\* answer is only logged and every exception is caught
send_notification(webhook) ==
    IF ~webhook
    THEN {[op |-> "notify", posted |-> FALSE, answer |-> "none"]}
    ELSE {[op |-> "notify", posted |-> TRUE, answer |-> a] : a \in WebhookAnswers}

\* send_timecard_to_backend 286-318 as a whole, for the answers the store would
\* give to attempts 0..max_retries-1: the loop stops at the first 200
send_timecard_to_backend(answers) ==
    LET ok == {a \in 0..(max_retries - 1) : is_success(answers[a])}
        last == IF ok = {} THEN max_retries - 1
                ELSE CHOOSE a \in ok : \A b \in ok : a <= b
    IN [success |-> ok # {},
        calls |-> last + 1,
        pauses |-> Cardinality({a \in 0..last : sleeps_after(answers[a], a)})]

\* the first value send_timecard_to_backend can return
Deliveries ==
    {send_timecard_to_backend(answers).success :
        answers \in [0..(max_retries - 1) -> Responses]}

\* process_recognition 349-423 for one face, the submission included: the
\* result of the face and every piece of state after it. i is what the matcher
\* resolves the face to when it is asked, success what the submission returns
\* when it is made.
process_face(cache, known, lr, lu, fa, st, allow, t, encoding_key, i, success) ==
    LET searched == has_known_faces(known)
        look == cache_lookup(cache, encoding_key)
        hit == searched /\ look.hit
        matched == searched /\ ~hit
        idx == IF matched THEN i ELSE 0
        name == IF hit THEN look.value[1]
                ELSE IF idx # 0 THEN staff_names[known[idx]] ELSE "Desconhecido"
        employee_id == IF hit THEN look.value[2]
                       ELSE IF idx # 0 THEN staff_ids[known[idx]] ELSE ""
        checked == idx # 0
        c == can_register_again(lr, lu, fa, employee_id, t)
        work == is_work_hours(t)
        d == IF checked THEN decision(c.ret, work, allow) ELSE "NONE"
        sent == d = "SUBMIT"
        accepted == sent /\ success
        lu1 == IF checked THEN c.locked_until ELSE lu
        fa1 == IF checked THEN c.failed_attempts ELSE fa
        \* line 420 tests the label, which the cooldown and the out-of-hours
        \* branch have extended by then
        failed == ~hit /\ name = "Desconhecido" /\ d \notin {"COOLDOWN", "OUT_OF_HOURS"}
        r == register_failed_attempt(lu1, fa1, t)
    IN [res |-> IF hit THEN "CACHE_HIT"
                ELSE IF ~checked THEN "UNRESOLVED"
                ELSE IF d = "SUBMIT"
                     THEN (IF success THEN "ACCEPTED" ELSE "SUBMIT_FAILED")
                     ELSE d,
        name |-> name, employee_id |-> employee_id,
        hit |-> hit, matched |-> matched,
        argmin |-> matched /\ Len(known) > 0,
        checked |-> checked, can |-> checked /\ c.ret, work |-> work,
        sent |-> sent, failed |-> failed,
        cache |-> IF checked
                  THEN cache_insert(cache, encoding_key, name, employee_id)
                  ELSE cache,
        last_recognition |-> IF accepted THEN Put(lr, employee_id, t) ELSE lr,
        store |-> IF accepted
                  THEN Append(st, [employee_id |-> employee_id, timestamp |-> t,
                                   task |-> 1])
                  ELSE st,
        locked_until |-> IF failed THEN r.locked_until ELSE lu1,
        failed_attempts |-> IF failed THEN r.failed_attempts ELSE fa1]

\* lines 379-418: the label and the colour process_recognition appends to
\* face_names for a face resolved to name, by how the face ended; only the
\* out-of-hours and the cooldown branch change the label or the colour
face_result(res, name, remaining) ==
    IF res = "OUT_OF_HOURS"
    THEN [name |-> name, suffix |-> " (Fora do horario)", remaining |-> 0,
          color |-> "yellow"]
    ELSE IF res = "COOLDOWN"
    THEN [name |-> name, suffix |-> " (Aguarde)", remaining |-> remaining,
          color |-> COLOR_COOLDOWN]
    ELSE [name |-> name, suffix |-> "", remaining |-> 0, color |-> COLOR_RECOGNIZED]

NoMatch == [op |-> "none"]
NoPayload == [body |-> FALSE, fields |-> {}, employee_id |-> "", employee_name |-> "",
              form |-> "malformed", t |-> 0]
NoResponse == [status |-> 0, success |-> FALSE, entry_type |-> "", request |-> NoPayload,
               fault |-> FALSE, cards_before |-> 0, employee_before |-> FALSE,
               committed |-> FALSE]

NoCall == [op |-> "none"]
\* the request handlers the store's threaded server runs side by side
Handlers == {1, 2}
\* a handler between two requests: no locals, no session
NoHandler == [pc |-> "idle", employee_id |-> "", employee_name |-> "", timestamp |-> 0,
              entry_type |-> "", new_employee |-> FALSE, flushed |-> FALSE,
              committed |-> FALSE]
NoOutcome == [res |-> "NONE", task |-> 0, employee_id |-> "", at |-> None, can |-> FALSE,
              work |-> FALSE, calls |-> 0, pauses |-> 0, resps |-> <<>>,
              name |-> "", suffix |-> "", remaining |-> 0, color |-> ""]
NoFace == [name |-> "", employee_id |-> "", can |-> FALSE, work |-> FALSE]

\* __init__ 61-89: empty ledgers, the loop not yet entered; either setting of
\* ALLOW_AFTER_HOURS
LoopInit ==
    /\ now = 0
    /\ allow_after_hours \in BOOLEAN
    /\ last_recognition = EmptyDict
    /\ failed_attempts = EmptyDict
    /\ locked_until = EmptyDict
    /\ store = <<>>
    /\ pc = [t \in Tasks |-> "read"]
    /\ current_time = [t \in Tasks |-> None]
    /\ nfaces = [t \in Tasks |-> 0]
    /\ cur = [t \in Tasks |-> NoFace]
    /\ resps = [t \in Tasks |-> <<>>]
    /\ pauses = [t \in Tasks |-> 0]
    /\ outcome = NoOutcome
    /\ gCool = NoCall
    /\ gLock = NoCall
    /\ gFail = NoCall
    /\ gMatch = NoMatch
    /\ gRetry = ""
    /\ gNotify = NoCall
    /\ gStats = NoCall

\* the store's tables after db.create_all(), no request being handled
StoreInit ==
    /\ employees = EmptyDict
    /\ timecards = <<>>
    /\ response = NoResponse
    /\ handlers = [h \in Handlers |-> NoHandler]

\* the notification settings as advanced_config.py ships them: first-entry
\* notifications on, no webhook
SettingsInit ==
    /\ notify_on_first_entry = TRUE
    /\ webhook_url = FALSE

\* no function is being applied
CallInit ==
    /\ call = NoCall
    /\ returned = NoCall

Init ==
    /\ LoopInit
    /\ known_faces = AllFaces
    /\ encoding_cache = EmptyCache
    /\ StoreInit
    /\ SettingsInit
    /\ CallInit


\* ------------------------------------------------------- records of calls
LockCall(lu, employee_id, t, l) ==
    [op |-> "lock", key |-> employee_id, at |-> t, ret |-> l.ret,
     pre_until |-> Get(lu, employee_id, None),
     post_locked |-> employee_id \in DOMAIN l.locked_until,
     post_window |-> employee_id \in DOMAIN l.failed_attempts]

CoolCall(lr, employee_id, t, c, l) ==
    [op |-> "cool", employee_id |-> employee_id, at |-> t, ret |-> c.ret,
     entry |-> Get(lr, employee_id, None), locked |-> l.ret]

FailCall(lu, fa, t, r) ==
    [op |-> "fail", at |-> t,
     pre_until |-> Get(lu, "unknown", None),
     pre_window |-> Get(fa, "unknown", <<>>),
     post_until |-> Get(r.locked_until, "unknown", None),
     post_window |-> Get(r.failed_attempts, "unknown", <<>>)]

\* the face list is exhausted: process_recognition returns, draw_interface is next
AfterFace(t) == IF nfaces[t] = 1 THEN "draw" ELSE "faces"
\* current_time is a local of process_recognition: gone when it returns
LocalTime(t) == IF nfaces[t] = 1 THEN None ELSE current_time[t]

\* ------------------------------------------------------------- the actions
\* the clock advances while a task waits: for the next frame (camera.read), for
\* the store's answer (requests.post, time.sleep) or for the operator's choice in
\* the menu (input)
Tick(running) ==
    /\ now < MaxTime
    /\ \E t \in running : pc[t] \in {"read", "submit", "menu"}
    /\ now' = now + 1
    /\ gCool' = NoCall /\ gLock' = NoCall /\ gFail' = NoCall
    /\ outcome' = NoOutcome
    /\ UNCHANGED <<allow_after_hours, last_recognition, failed_attempts, locked_until,
                   store, pc, current_time, nfaces, cur, resps, pauses>>
    /\ gMatch' = NoMatch /\ gNotify' = NoCall /\ gStats' = NoCall
    /\ UNCHANGED <<matching, backend, rest>>

\* recognize_faces 498-532: a frame with faces is handed to process_recognition,
\* which reads current_time once for the whole frame (line 347)
StartFrame(t, n) ==
    /\ pc[t] = "read"
    /\ nfaces' = [nfaces EXCEPT ![t] = n]
    /\ current_time' = [current_time EXCEPT ![t] = now]
    /\ pc' = [pc EXCEPT ![t] = "faces"]
    /\ gCool' = NoCall /\ gLock' = NoCall /\ gFail' = NoCall
    /\ outcome' = NoOutcome
    /\ UNCHANGED <<now, allow_after_hours, last_recognition, failed_attempts,
                   locked_until, store, cur, resps, pauses>>
    /\ gMatch' = NoMatch /\ gNotify' = NoCall /\ gStats' = NoCall
    /\ UNCHANGED <<matching, backend, rest>>

StartRecognition(t) == \E n \in 1..MaxFaces : StartFrame(t, n)

\* recognize_faces 514-534: a frame that is not processed or shows no face
SkipFrame(t) ==
    /\ pc[t] = "read"
    /\ pc' = [pc EXCEPT ![t] = "draw"]
    /\ gCool' = NoCall /\ gLock' = NoCall /\ gFail' = NoCall
    /\ outcome' = NoOutcome
    /\ UNCHANGED <<now, allow_after_hours, last_recognition, failed_attempts,
                   locked_until, store, current_time, nfaces, cur, resps, pauses>>
    /\ gMatch' = NoMatch /\ gNotify' = NoCall /\ gStats' = NoCall
    /\ UNCHANGED <<matching, backend, rest>>

\* process_recognition 349-353, 420-423: a face that resolves to nobody
Unresolved(t) ==
    /\ pc[t] = "faces"
    /\ Len(Get(failed_attempts, "unknown", <<>>)) < MaxWindow
    /\ 0 \in Resolutions
    /\ LET r == register_failed_attempt(locked_until, failed_attempts, now) IN
       /\ failed_attempts' = r.failed_attempts
       /\ locked_until' = r.locked_until
       /\ gFail' = FailCall(locked_until, failed_attempts, now, r)
    /\ outcome' = [NoOutcome EXCEPT !.res = "UNRESOLVED", !.task = t, !.at = now,
                                     !.name = "Desconhecido",
                                     !.color = COLOR_UNKNOWN]
    /\ nfaces' = [nfaces EXCEPT ![t] = @ - 1]
    /\ pc' = [pc EXCEPT ![t] = AfterFace(t)]
    /\ current_time' = [current_time EXCEPT ![t] = LocalTime(t)]
    /\ gCool' = NoCall /\ gLock' = NoCall
    /\ UNCHANGED <<now, allow_after_hours, last_recognition, store, cur, resps, pauses>>
    /\ gMatch' = NoMatch /\ gNotify' = NoCall /\ gStats' = NoCall
    /\ UNCHANGED <<matching, backend, rest>>

\* process_recognition 376-418: a face that resolves to a gallery entry (the
\* cache of lines 355-362 and 383-386 never holds an entry, see truthy; its
\* lookup and insert are part of ProcessFace)
Resolved(t) ==
    /\ pc[t] = "faces"
    /\ \E i \in Gallery :
        /\ i \in Resolutions
        /\ LET name == known_names[i]
               employee_id == known_ids[i]
               l == is_employee_locked(locked_until, failed_attempts, employee_id, now)
               c == can_register_again(last_recognition, locked_until,
                                       failed_attempts, employee_id, now)
               work == is_work_hours(now)
               d == decision(c.ret, work, allow_after_hours)
               remaining_time == RECOGNITION_COOLDOWN -
                   (current_time[t] - Get(last_recognition, employee_id, current_time[t]))
               base == [NoOutcome EXCEPT !.task = t, !.employee_id = employee_id, !.at = now,
                                         !.can = c.ret, !.work = work, !.name = name]
           IN
           /\ locked_until' = c.locked_until
           /\ failed_attempts' = c.failed_attempts
           /\ gLock' = LockCall(locked_until, employee_id, now, l)
           /\ gCool' = CoolCall(last_recognition, employee_id, now, c, l)
           /\ gFail' = NoCall
           /\ IF d = "SUBMIT"
              THEN /\ pc' = [pc EXCEPT ![t] = "submit"]
                   /\ cur' = [cur EXCEPT ![t] = [name |-> name, employee_id |-> employee_id,
                                                 can |-> c.ret, work |-> work]]
                   /\ resps' = [resps EXCEPT ![t] = <<>>]
                   /\ pauses' = [pauses EXCEPT ![t] = 0]
                   /\ outcome' = NoOutcome
                   /\ UNCHANGED <<nfaces, current_time>>
              ELSE /\ outcome' =
                        IF d = "OUT_OF_HOURS"
                        THEN [base EXCEPT !.res = "OUT_OF_HOURS",
                                          !.suffix = " (Fora do horario)",
                                          !.color = "yellow"]
                        ELSE [base EXCEPT !.res = "COOLDOWN",
                                          !.suffix = " (Aguarde)",
                                          !.remaining = remaining_time,
                                          !.color = COLOR_COOLDOWN]
                   /\ nfaces' = [nfaces EXCEPT ![t] = @ - 1]
                   /\ pc' = [pc EXCEPT ![t] = AfterFace(t)]
                   /\ current_time' = [current_time EXCEPT ![t] = LocalTime(t)]
                   /\ UNCHANGED <<cur, resps, pauses>>
    /\ UNCHANGED <<now, allow_after_hours, last_recognition, store>>
    /\ gMatch' = NoMatch /\ gNotify' = NoCall /\ gStats' = NoCall
    /\ UNCHANGED <<matching, backend, rest>>

\* send_timecard_to_backend 290-318, one attempt, and what process_recognition
\* does when the submission returns (400-401, 420-423)
StoreCall(t) ==
    /\ pc[t] = "submit"
    /\ \E resp \in Responses :
        LET attempt == Len(resps[t])
            all == Append(resps[t], resp)
            slept == pauses[t] + (IF sleeps_after(resp, attempt) THEN 1 ELSE 0)
            done == is_success(resp) \/ attempt + 1 >= max_retries
            unnamed == cur[t].name = "Desconhecido"
            r == register_failed_attempt(locked_until, failed_attempts, now)
        IN
        /\ is_success(resp) => Len(store) < MaxStore
        /\ (done /\ unnamed) => Len(Get(failed_attempts, "unknown", <<>>)) < MaxWindow
        /\ gNotify' \in IF is_success(resp) /\ first_entry(resp, notify_on_first_entry)
                        THEN send_notification(webhook_url)
                        ELSE {[op |-> "none"]}
        /\ resps' = [resps EXCEPT ![t] = IF done THEN <<>> ELSE all]
        /\ pauses' = [pauses EXCEPT ![t] = IF done THEN 0 ELSE slept]
        /\ IF is_success(resp)
           THEN /\ store' = Append(store, [employee_id |-> cur[t].employee_id,
                                           timestamp |-> current_time[t],
                                           task |-> t])
                /\ last_recognition' =
                       Put(last_recognition, cur[t].employee_id, current_time[t])
           ELSE UNCHANGED <<store, last_recognition>>
        /\ IF done
           THEN /\ outcome' =
                       [NoOutcome EXCEPT
                          !.res = IF is_success(resp) THEN "ACCEPTED" ELSE "SUBMIT_FAILED",
                          !.task = t,
                          !.employee_id = cur[t].employee_id,
                          !.at = current_time[t],
                          !.can = cur[t].can, !.work = cur[t].work,
                          !.calls = Len(all), !.pauses = slept, !.resps = all,
                          !.name = cur[t].name, !.color = COLOR_RECOGNIZED]
                /\ nfaces' = [nfaces EXCEPT ![t] = @ - 1]
                /\ pc' = [pc EXCEPT ![t] = AfterFace(t)]
                /\ current_time' = [current_time EXCEPT ![t] = LocalTime(t)]
                /\ cur' = [cur EXCEPT ![t] = NoFace]
                /\ IF unnamed
                   THEN /\ failed_attempts' = r.failed_attempts
                        /\ locked_until' = r.locked_until
                        /\ gFail' = FailCall(locked_until, failed_attempts, now, r)
                   ELSE /\ gFail' = NoCall
                        /\ UNCHANGED <<failed_attempts, locked_until>>
           ELSE /\ gFail' = NoCall
                /\ outcome' = NoOutcome
                /\ UNCHANGED <<nfaces, pc, cur, current_time, failed_attempts,
                               locked_until>>
    /\ gCool' = NoCall /\ gLock' = NoCall
    /\ UNCHANGED <<now, allow_after_hours>>
    /\ gMatch' = NoMatch /\ gStats' = NoCall
    /\ UNCHANGED <<matching, backend, rest>>

\* draw_interface 474-480: the lock check made once per loop iteration
DrawInterface(t) ==
    /\ pc[t] = "draw"
    /\ LET l == is_employee_locked(locked_until, failed_attempts, "unknown", now) IN
       /\ locked_until' = l.locked_until
       /\ failed_attempts' = l.failed_attempts
       /\ gLock' = LockCall(locked_until, "unknown", now, l)
    /\ pc' = [pc EXCEPT ![t] = "read"]
    /\ gCool' = NoCall /\ gFail' = NoCall
    /\ outcome' = NoOutcome
    /\ UNCHANGED <<now, allow_after_hours, last_recognition, store, current_time,
                   nfaces, cur, resps, pauses>>
    /\ gMatch' = NoMatch /\ gNotify' = NoCall /\ gStats' = NoCall
    /\ UNCHANGED <<matching, backend, rest>>

\* the capture loop as written: one thread
Next ==
    \/ Tick({1})
    \/ StartRecognition(1)
    \/ SkipFrame(1)
    \/ Unresolved(1)
    \/ Resolved(1)
    \/ StoreCall(1)
    \/ DrawInterface(1)

Spec == Init /\ [][Next]_vars

\* two observation-processing tasks over the same ledgers, each handling one
\* observation with process_recognition
StartObservation(t) == StartFrame(t, 1)

NextConc ==
    \/ Tick(Tasks)
    \/ \E t \in Tasks : StartObservation(t)
    \/ \E t \in Tasks : Resolved(t)
    \/ \E t \in Tasks : StoreCall(t)

SpecConc == Init /\ [][NextConc]_vars

\* ------------------------------------------- the capture loop, face by face
\* the controller after __init__, for any gallery load_known_faces finds and
\* either setting of CACHE_ENCODINGS
InitFaces ==
    /\ LoopInit
    /\ known_faces \in Galleries
    /\ encoding_cache \in {NoneCache, EmptyCache}
    /\ StoreInit
    /\ SettingsInit
    /\ CallInit

\* process_recognition 349-423: one face of the frame handled from the cache
\* lookup to the end of its submission, with no clock tick in between
ProcessFace(t) ==
    /\ pc[t] = "faces"
    /\ \E encoding_key \in Fingerprints, success \in Deliveries :
       \E i \in ResolutionTable[known_faces] :
       \E r \in {process_face(encoding_cache, known_faces, last_recognition,
                              locked_until, failed_attempts, store,
                              allow_after_hours, now, encoding_key, i, success)} :
        LET l == is_employee_locked(locked_until, failed_attempts, r.employee_id, now)
            c == can_register_again(last_recognition, locked_until,
                                    failed_attempts, r.employee_id, now)
            lu1 == IF r.checked THEN c.locked_until ELSE locked_until
            fa1 == IF r.checked THEN c.failed_attempts ELSE failed_attempts
            f == register_failed_attempt(lu1, fa1, now)
        IN
        /\ Len(r.store) <= MaxStore
        /\ Len(Get(r.failed_attempts, "unknown", <<>>)) <= MaxWindow
        /\ encoding_cache' = r.cache
        /\ last_recognition' = r.last_recognition
        /\ locked_until' = r.locked_until
        /\ failed_attempts' = r.failed_attempts
        /\ store' = r.store
        /\ gMatch' = [op |-> "match",
                      i |-> IF r.matched THEN i ELSE 0,
                      success |-> r.sent /\ success,
                      hit |-> r.hit, matched |-> r.matched, argmin |-> r.argmin,
                      size |-> Cardinality(DOMAIN encoding_cache.items),
                      cached |-> /\ encoding_key \in DOMAIN r.cache.items
                                 /\ r.cache.items[encoding_key] = <<r.name, r.employee_id>>]
        /\ gLock' = IF r.checked THEN LockCall(locked_until, r.employee_id, now, l)
                    ELSE NoCall
        /\ gCool' = IF r.checked
                    THEN CoolCall(last_recognition, r.employee_id, now, c, l)
                    ELSE NoCall
        /\ gFail' = IF r.failed THEN FailCall(lu1, fa1, now, f) ELSE NoCall
        /\ gRetry' = IF r.res = "SUBMIT_FAILED" THEN r.employee_id
                     ELSE IF r.checked /\ r.employee_id = gRetry THEN ""
                     ELSE gRetry
        /\ outcome' = [NoOutcome EXCEPT
                          !.res = r.res, !.task = t, !.employee_id = r.employee_id,
                          !.at = now, !.can = r.can, !.work = r.work,
                          !.name = r.name]
    /\ nfaces' = [nfaces EXCEPT ![t] = @ - 1]
    /\ pc' = [pc EXCEPT ![t] = AfterFace(t)]
    /\ current_time' = [current_time EXCEPT ![t] = LocalTime(t)]
    /\ gNotify' = NoCall /\ gStats' = NoCall
    /\ UNCHANGED <<now, allow_after_hours, known_faces, cur, resps, pauses, backend,
                   rest>>

NextFaces ==
    \/ Tick({1})
    \/ StartObservation(1)
    \/ SkipFrame(1)
    \/ ProcessFace(1)
    \/ DrawInterface(1)

SpecFaces == InitFaces /\ [][NextFaces]_vars

\* ------------------------------------------------- the store (timecard_backend.py)
required_fields == {"employee_id", "employee_name", "timestamp"}

\* the shapes a timestamp string can have: what datetime.isoformat() writes,
\* the same with a trailing Z, an ISO-8601 ordinal date (YYYY-DDDThh:mm:ss),
\* and text that is no timestamp
TimestampForms == {"extended", "zulu", "ordinal", "malformed"}

\* line 90: timestamp_str.replace('Z', '+00:00')
replace_Z(form) == IF form = "zulu" THEN "offset" ELSE form

\* datetime.fromisoformat: TRUE when it returns a datetime, FALSE when it
\* raises ValueError; ordinal dates are not parsed
fromisoformat(form) == form \in {"extended", "offset"}

\* what a client can post: no JSON body, a body with every required field
\* (the timestamp in any of the shapes), or a body with one field missing
Payloads ==
    {NoPayload}
    \cup [body : {TRUE}, fields : {required_fields}, employee_id : {"E1", "E2"},
          employee_name : {"Ana"}, form : {"extended", "zulu"}, t : 0..MaxStamp]
    \cup [body : {TRUE}, fields : {required_fields}, employee_id : {"E1", "E2"},
          employee_name : {"Ana"}, form : {"ordinal", "malformed"}, t : {0}]
    \cup [body : {TRUE}, fields : {required_fields \ {f} : f \in required_fields},
          employee_id : {"E1"}, employee_name : {"Ana"}, form : {"extended"}, t : {0}]

\* determine_entry_type 58-66: the entry types the query can lead to. ORDER BY
\* timestamp DESC leaves the order of records with equal timestamps to the
\* database, so any record with the greatest timestamp can come first.
determine_entry_type(cards, employee_id) ==
    LET mine == {i \in DOMAIN cards : cards[i].employee_id = employee_id}
        latest == {i \in mine : \A j \in mine : cards[j].timestamp <= cards[i].timestamp}
    IN IF mine = {}
       THEN {"entrada"}
       ELSE {IF cards[i].entry_type = "saida" THEN "entrada" ELSE "saida" : i \in latest}

\* register_timecard 68-127: one POST /api/timecard, handled as a whole. fault
\* is an exception raised by the database work of lines 96-113 (the commit
\* refused): the session is rolled back and 500 is answered.
register_timecard ==
    /\ \E data \in Payloads :
        LET answer(status, fault) ==
                [NoResponse EXCEPT !.status = status, !.request = data,
                                   !.fault = fault,
                                   !.cards_before = Len(timecards),
                                   !.employee_before = data.employee_id \in DOMAIN employees]
        IN
        IF ~data.body \/ ~(required_fields \subseteq data.fields)
           \/ ~fromisoformat(replace_Z(data.form))
        THEN /\ response' = answer(400, FALSE)
             /\ UNCHANGED <<employees, timecards>>
        ELSE \/ /\ response' = answer(500, TRUE)
                /\ UNCHANGED <<employees, timecards>>
             \/ /\ Len(timecards) < MaxCards
                /\ \E entry_type \in determine_entry_type(timecards, data.employee_id) :
                    /\ employees' =
                          IF data.employee_id \in DOMAIN employees
                          THEN employees
                          ELSE Put(employees, data.employee_id, data.employee_name)
                    /\ timecards' =
                          Append(timecards,
                                 [employee_id |-> data.employee_id,
                                  employee_name |-> data.employee_name,
                                  timestamp |-> data.t,
                                  entry_type |-> entry_type])
                    /\ response' = [answer(200, FALSE) EXCEPT !.success = TRUE,
                                                              !.entry_type = entry_type,
                                                              !.committed = TRUE]
    /\ UNCHANGED <<now, allow_after_hours, last_recognition, failed_attempts,
                   locked_until, store, pc, current_time, nfaces, cur, resps,
                   pauses, outcome, gCool, gLock, gFail, gMatch, matching,
                   gNotify, gStats, rest>>

NextBackend == register_timecard

SpecBackend == Init /\ [][NextBackend]_vars

\* a gallery that holds the whole staff
InitStaff ==
    /\ LoopInit
    /\ known_faces = StaffFaces
    /\ encoding_cache = EmptyCache
    /\ StoreInit
    /\ SettingsInit
    /\ CallInit

SpecStaff == InitStaff /\ [][NextFaces]_vars

\* ------------------------------------------- the store, request by request
\* lines 72-92: the request passes the validation
valid(data) ==
    /\ data.body
    /\ required_fields \subseteq data.fields
    /\ fromisoformat(replace_Z(data.form))

\* the handlers whose session holds the database's write lock: the ones that
\* have flushed an INSERT and neither committed nor rolled back
Writers == {h \in Handlers : handlers[h].flushed}

\* what a handler answers, and whether its session had committed by then
Answer(h, status) ==
    [NoResponse EXCEPT !.status = status,
                       !.success = status = 200,
                       !.entry_type = IF status = 200 THEN handlers[h].entry_type ELSE "",
                       !.fault = status = 500,
                       !.committed = handlers[h].committed]

\* lines 70-99: a request arrives at an idle handler, is validated (400 for no
\* body, a missing field, a timestamp that does not parse) and its employee is
\* looked up; an unknown employee is added to the session
Receive(h) ==
    /\ handlers[h].pc = "idle"
    /\ \E data \in Payloads :
        IF ~valid(data)
        THEN /\ response' = Answer(h, 400)
             /\ UNCHANGED handlers
        ELSE /\ handlers' = [handlers EXCEPT ![h] =
                    [NoHandler EXCEPT
                        !.pc = "entry",
                        !.employee_id = data.employee_id,
                        !.employee_name = data.employee_name,
                        !.timestamp = data.t,
                        !.new_employee = data.employee_id \notin DOMAIN employees]]
             /\ response' = NoResponse
    /\ UNCHANGED <<employees, timecards, capture, matching, notify_on_first_entry,
                   webhook_url, call, returned>>

\* line 102 and determine_entry_type 58-66: the query first flushes the session,
\* which inserts a pending Employee under the write lock (the handler waits
\* while another session holds it; the insert fails on the primary key when the
\* employee was committed meanwhile, and 500 is answered); then the entry type is
\* derived from the committed records
DetermineEntryType(h) ==
    /\ handlers[h].pc = "entry"
    /\ handlers[h].new_employee => Writers = {}
    /\ IF handlers[h].new_employee /\ handlers[h].employee_id \in DOMAIN employees
       THEN /\ response' = Answer(h, 500)
            /\ handlers' = [handlers EXCEPT ![h] = NoHandler]
       ELSE /\ \E entry_type \in determine_entry_type(timecards, handlers[h].employee_id) :
                 handlers' = [handlers EXCEPT ![h].pc = "commit",
                                              ![h].entry_type = entry_type,
                                              ![h].flushed = handlers[h].new_employee]
            /\ response' = NoResponse
    /\ UNCHANGED <<employees, timecards, capture, matching, notify_on_first_entry,
                   webhook_url, call, returned>>

\* lines 105-114: the TimeCard is added and the session committed; the commit
\* writes the flushed Employee and the TimeCard together, and waits while
\* another session holds the write lock
Commit(h) ==
    /\ handlers[h].pc = "commit"
    /\ Writers \subseteq {h}
    /\ Len(timecards) < MaxCards
    /\ employees' = IF handlers[h].flushed
                    THEN Put(employees, handlers[h].employee_id, handlers[h].employee_name)
                    ELSE employees
    /\ timecards' = Append(timecards,
                           [employee_id |-> handlers[h].employee_id,
                            employee_name |-> handlers[h].employee_name,
                            timestamp |-> handlers[h].timestamp,
                            entry_type |-> handlers[h].entry_type])
    /\ handlers' = [handlers EXCEPT ![h].pc = "respond",
                                    ![h].flushed = FALSE,
                                    ![h].committed = TRUE]
    /\ response' = NoResponse
    /\ UNCHANGED <<capture, matching, notify_on_first_entry, webhook_url, call,
                   returned>>

\* lines 116-122: the answer is built from timecard.to_dict(), which reloads the
\* row the commit expired, and 200 is answered
Respond(h) ==
    /\ handlers[h].pc = "respond"
    /\ response' = Answer(h, 200)
    /\ handlers' = [handlers EXCEPT ![h] = NoHandler]
    /\ UNCHANGED <<employees, timecards, capture, matching, notify_on_first_entry,
                   webhook_url, call, returned>>

\* lines 124-127: a statement of the try block that works on the database
\* raises (the flush or the query of line 102, the commit of 114, the reload of
\* 121): the session is rolled back, which undoes what it had flushed and
\* nothing it had committed, and 500 is answered
Fault(h) ==
    /\ handlers[h].pc \in {"entry", "commit", "respond"}
    /\ response' = Answer(h, 500)
    /\ handlers' = [handlers EXCEPT ![h] = NoHandler]
    /\ UNCHANGED <<employees, timecards, capture, matching, notify_on_first_entry,
                   webhook_url, call, returned>>

NextRequests ==
    \E h \in Handlers :
        \/ Receive(h)
        \/ DetermineEntryType(h)
        \/ Commit(h)
        \/ Respond(h)
        \/ Fault(h)

SpecRequests == Init /\ [][NextRequests]_vars

\* ---------------------------------------------------------------- the menu
\* recognize_faces 547-549: the operator presses q, the loop ends and main is
\* back at its menu (717)
Quit(t) ==
    /\ pc[t] = "read"
    /\ pc' = [pc EXCEPT ![t] = "menu"]
    /\ gCool' = NoCall /\ gLock' = NoCall /\ gFail' = NoCall
    /\ outcome' = NoOutcome
    /\ gMatch' = NoMatch /\ gNotify' = NoCall /\ gStats' = NoCall
    /\ UNCHANGED <<now, allow_after_hours, last_recognition, failed_attempts,
                   locked_until, store, current_time, nfaces, cur, resps, pauses,
                   matching, backend, rest>>

\* main 728-734, choice 4: the statistics display reads the 'unknown' failure
\* window as it is and prints its length
ChooseStatistics(t) ==
    /\ pc[t] = "menu"
    /\ gStats' = [op |-> "stats", at |-> now,
                  window |-> Get(failed_attempts, "unknown", <<>>)]
    /\ gCool' = NoCall /\ gLock' = NoCall /\ gFail' = NoCall
    /\ outcome' = NoOutcome
    /\ gMatch' = NoMatch /\ gNotify' = NoCall
    /\ UNCHANGED <<now, allow_after_hours, last_recognition, failed_attempts,
                   locked_until, store, pc, current_time, nfaces, cur, resps, pauses,
                   matching, backend, rest>>

\* main 719-720, choice 1: recognize_faces is entered again
ChooseRecognition(t) ==
    /\ pc[t] = "menu"
    /\ pc' = [pc EXCEPT ![t] = "read"]
    /\ gCool' = NoCall /\ gLock' = NoCall /\ gFail' = NoCall
    /\ outcome' = NoOutcome
    /\ gMatch' = NoMatch /\ gNotify' = NoCall /\ gStats' = NoCall
    /\ UNCHANGED <<now, allow_after_hours, last_recognition, failed_attempts,
                   locked_until, store, current_time, nfaces, cur, resps, pauses,
                   matching, backend, rest>>

\* the capture loop over frames of one face, left for the menu and entered again
NextMenu ==
    \/ Tick({1})
    \/ StartObservation(1)
    \/ ProcessFace(1)
    \/ DrawInterface(1)
    \/ Quit(1)
    \/ ChooseStatistics(1)
    \/ ChooseRecognition(1)

SpecMenu == Init /\ [][NextMenu]_vars

\* ------------------------------------------------------ the notifications
\* either setting of NOTIFY_ON_FIRST_ENTRY, with and without a WEBHOOK_URL
InitNotify ==
    /\ LoopInit
    /\ known_faces = AllFaces
    /\ encoding_cache = EmptyCache
    /\ StoreInit
    /\ notify_on_first_entry \in BOOLEAN
    /\ webhook_url \in BOOLEAN
    /\ CallInit

\* the capture loop over frames of one face that resolves to a known identity
NextNotify ==
    \/ Tick({1})
    \/ StartObservation(1)
    \/ Resolved(1)
    \/ StoreCall(1)
    \/ DrawInterface(1)

SpecNotify == InitNotify /\ [][NextNotify]_vars

\* ------------------------------------------------- functions applied alone
\* the matcher's answers for one face against a loaded gallery
MatchCalls ==
    {[op |-> "match_face", known |-> known, matches |-> m, face_distances |-> d] :
        known \in {AllFaces}, m \in [Gallery -> BOOLEAN], d \in [Gallery -> Distances]}
    \cup {[op |-> "match_face", known |-> <<>>, matches |-> <<>>, face_distances |-> <<>>]}

\* the settings of the work window and the times of day is_work_hours is asked at
Bounds == {None} \cup (0..MaxTime)
WorkHourCalls ==
    {[op |-> "is_work_hours", start |-> a, end |-> b, t |-> t] :
        a \in Bounds, b \in Bounds, t \in 0..MaxTime}

InitCalls ==
    /\ LoopInit
    /\ known_faces = AllFaces
    /\ encoding_cache = EmptyCache
    /\ StoreInit
    /\ SettingsInit
    /\ call \in MatchCalls \cup WorkHourCalls
    /\ returned = NoCall

\* lines 364-381 applied to the matcher's answers
ApplyMatchFace ==
    /\ call.op = "match_face"
    /\ returned = NoCall
    /\ returned' = [op |-> "match_face",
                    ret |-> match_face(call.known, call.matches, call.face_distances)]
    /\ UNCHANGED <<capture, matching, backend, notify_on_first_entry, webhook_url,
                   call, handlers>>

\* is_work_hours applied to a window and a time of day
ApplyIsWorkHours ==
    /\ call.op = "is_work_hours"
    /\ returned = NoCall
    /\ returned' = [op |-> "is_work_hours",
                    ret |-> is_work_hours_of(call.start, call.end, call.t)]
    /\ UNCHANGED <<capture, matching, backend, notify_on_first_entry, webhook_url,
                   call, handlers>>

NextCalls == ApplyMatchFace \/ ApplyIsWorkHours

SpecCalls == InitCalls /\ [][NextCalls]_vars

TypeOK ==
    /\ now \in 0..MaxTime
    /\ \A t \in Tasks : pc[t] \in {"read", "faces", "submit", "draw", "menu"}
    /\ \A t \in Tasks : Len(resps[t]) <= max_retries

\* ------------------------------------------------------------- the claims
ResolvedResults == {"OUT_OF_HOURS", "COOLDOWN", "SUBMIT_FAILED", "ACCEPTED"}
SubmittedResults == {"SUBMIT_FAILED", "ACCEPTED"}
Answered200(resp) == resp \in {"ok_entrada", "ok_saida"}
\* what the controller returned for the face of the last step
Shown(o) == [name |-> o.name, suffix |-> o.suffix, remaining |-> o.remaining,
             color |-> o.color]
\* the records of one employee, in the order they were recorded
CardsOf(cards, employee_id) ==
    LET Mine(card) == card.employee_id = employee_id IN SelectSeq(cards, Mine)
\* entrada, saida, entrada, ... from the first record on
Alternates(cards) ==
    \A k \in 1..Len(cards) :
        cards[k].entry_type = IF k % 2 = 1 THEN "entrada" ELSE "saida"
Abs(x) == IF x < 0 THEN -x ELSE x

\* the failures of the window that are newer than one hour at time t, the one
\* being recorded at t included
RecentFailures(window, t) ==
    Cardinality({i \in DOMAIN window : window[i] > t - OneHour}) + 1
LockedAt(until, t) == until # None /\ t <= until

\* C1: the cooldown check of an identity answers false inside the cooldown
\* window opened by the last accepted event, true from lastAcceptedAt + cooldown
\* on (boundary included), and true when the identity has no entry.
C1_CooldownCheck ==
    gCool.op = "cool" =>
        (gCool.ret <=> (gCool.entry = None
                        \/ gCool.at - gCool.entry >= RECOGNITION_COOLDOWN))

\* C2: two tasks handling observations of the same identity concurrently never
\* both get an event accepted within one cooldown window.
C2_AtomicCooldown ==
    \A i \in DOMAIN store : \A j \in DOMAIN store :
        (i < j /\ store[i].employee_id = store[j].employee_id
               /\ store[i].task # store[j].task)
        => Abs(store[i].timestamp - store[j].timestamp) >= RECOGNITION_COOLDOWN

\* C3: a failure recorded at time now in an unlocked 'unknown' scope leaves the
\* scope locked, with unlockAt = now + LOCKOUT_TIME, exactly when the failures
\* of the window newer than now - 1 hour, this one included, number at least
\* MAX_FAILED_ATTEMPTS; otherwise the scope stays unlocked.
C3_LockoutTrip ==
    (gFail.op = "fail" /\ ~LockedAt(gFail.pre_until, gFail.at)) =>
        LET n == RecentFailures(gFail.pre_window, gFail.at) IN
        /\ LockedAt(gFail.post_until, gFail.at) <=> n >= MAX_FAILED_ATTEMPTS
        /\ n >= MAX_FAILED_ATTEMPTS => gFail.post_until = gFail.at + LOCKOUT_TIME

C3_Witness ==
    /\ gFail.op = "fail"
    /\ ~LockedAt(gFail.pre_until, gFail.at)
    /\ Len(gFail.pre_window) >= 1
    /\ gFail.post_until = gFail.at + LOCKOUT_TIME

C5_ExpiredLockoutCleared ==
    (gFail.op = "fail" /\ gFail.pre_until # None /\ gFail.at > gFail.pre_until
        /\ MAX_FAILED_ATTEMPTS > 1) =>
        /\ gFail.post_window = <<gFail.at>>
        /\ ~LockedAt(gFail.post_until, gFail.at)

\* C6: the lock check of a scope that has a lockout entry answers true at every
\* time now <= unlockAt; called at a time now > unlockAt it answers false,
\* removes the lockout entry and empties the scope's failure window.
C6_LockCheck ==
    (gLock.op = "lock" /\ gLock.pre_until # None) =>
        /\ gLock.ret <=> gLock.at <= gLock.pre_until
        /\ gLock.ret => gLock.post_locked
        /\ ~gLock.ret => (~gLock.post_locked /\ ~gLock.post_window)

C6_Witness ==
    /\ gLock.op = "lock"
    /\ gLock.key = "unknown"
    /\ gLock.pre_until # None
    /\ gLock.at > gLock.pre_until
    /\ ~gLock.ret

\* C7: a submission makes at most 3 store calls, makes no call after one that
\* was answered 200, is accepted exactly when a call was answered 200, and
\* after 3 failed calls ends not accepted, as a result and not as a fault.
C7_Submission ==
    /\ \A t \in Tasks :
          /\ Len(resps[t]) <= 3
          /\ \A i \in 1..(Len(resps[t]) - 1) : ~Answered200(resps[t][i])
    /\ outcome.res \in SubmittedResults =>
          /\ outcome.calls = Len(outcome.resps)
          /\ outcome.calls \in 1..3
          /\ outcome.res = "ACCEPTED"
                <=> (\E i \in DOMAIN outcome.resps : Answered200(outcome.resps[i]))
          /\ outcome.res = "SUBMIT_FAILED" => outcome.calls = 3

C7_Witness ==
    /\ outcome.res = "SUBMIT_FAILED"
    /\ outcome.calls = 3
    /\ \E i \in DOMAIN outcome.resps : outcome.resps[i] = "non200"
    /\ \E i \in DOMAIN outcome.resps : outcome.resps[i] = "error"

\* C8: a submission pauses once between every two consecutive attempts,
\* whatever made the earlier attempt fail, and not after the last one: with n
\* store calls it pauses n - 1 times.
C8_PauseBetweenAttempts ==
    outcome.res \in SubmittedResults => outcome.pauses = outcome.calls - 1

\* C9 as stated: allowAfterHours false and the time outside the work window,
\* every observation resolved to a known identity ends OUT_OF_HOURS, inside its
\* cooldown window or not. (The observations of an employee whose id is the
\* key of a running lockout are left aside: the check refuses those whatever
\* the cooldown says.)
C9_WorkWindowFirst ==
    (outcome.res \in ResolvedResults /\ ~allow_after_hours /\ ~outcome.work
        /\ ~(gCool.op = "cool" /\ gCool.locked)) =>
        outcome.res = "OUT_OF_HOURS"

\* C9 amended: allowAfterHours false and the time outside the work window, an
\* observation resolved to a known identity ends OUT_OF_HOURS when it passes
\* the cooldown check and COOLDOWN when it does not: the cooldown check is
\* applied before the work-window check.
C9_CooldownFirst ==
    (outcome.res \in ResolvedResults /\ ~allow_after_hours /\ ~outcome.work) =>
        /\ outcome.can => outcome.res = "OUT_OF_HOURS"
        /\ ~outcome.can => outcome.res = "COOLDOWN"

C9_Witness ==
    /\ outcome.res = "COOLDOWN"
    /\ ~allow_after_hours
    /\ ~outcome.work
    /\ gCool.op = "cool"
    /\ gCool.entry # None
    /\ gCool.at - gCool.entry < RECOGNITION_COOLDOWN

C11_FailedSubmissionRetried ==
    [][/\ outcome'.res = "SUBMIT_FAILED" =>
             /\ store' = store
             /\ last_recognition' = last_recognition
       /\ (gRetry # "" /\ gCool'.op = "cool" /\ gCool'.employee_id = gRetry) =>
             /\ gCool'.ret
             /\ (is_work_hours(now) \/ allow_after_hours) =>
                    outcome'.res \in SubmittedResults]_vars

\* C12: an observation of an identity checked inside its cooldown window ends
\* COOLDOWN with no store call, and the remaining time it reports is
\* RECOGNITION_COOLDOWN minus the time elapsed since the identity's
\* lastAcceptedAt.
C12_CooldownRemaining ==
    (gCool.op = "cool" /\ gCool.entry # None
        /\ gCool.at - gCool.entry < RECOGNITION_COOLDOWN) =>
        /\ outcome.res = "COOLDOWN"
        /\ outcome.calls = 0
        /\ \A t \in Tasks : pc[t] # "submit"
        /\ outcome.remaining = RECOGNITION_COOLDOWN - (gCool.at - gCool.entry)

\* C13: any two events of one identity accepted by the store carry timestamps
\* at least RECOGNITION_COOLDOWN apart, frames with several faces and slow
\* submissions included.
C13_MinimumInterval ==
    \A i \in DOMAIN store : \A j \in DOMAIN store :
        (i < j /\ store[i].employee_id = store[j].employee_id)
        => Abs(store[j].timestamp - store[i].timestamp) >= RECOGNITION_COOLDOWN

\* C14: an observation that resolves to Unknown records exactly one failure in
\* the 'unknown' scope (the window becomes its entries of the last hour
\* followed by this failure), makes and starts no store call and leaves every
\* cooldown entry unchanged.
C14_UnknownRecordsOneFailure ==
    [][outcome'.res = "UNRESOLVED" =>
          LET window == Get(failed_attempts, "unknown", <<>>)
              InLastHour(attempt) == attempt > now - OneHour
          IN /\ gFail'.op = "fail"
             /\ Get(failed_attempts', "unknown", <<>>) =
                    Append(SelectSeq(window, InLastHour), now)
             /\ store' = store
             /\ resps' = resps
             /\ \A t \in Tasks : pc'[t] = "submit" => pc[t] = "submit"
             /\ last_recognition' = last_recognition]_vars

C14_Witness ==
    /\ outcome.res = "UNRESOLVED"
    /\ Len(Get(failed_attempts, "unknown", <<>>)) >= 2
    /\ last_recognition # EmptyDict
    /\ store # <<>>

\* C15: with an empty gallery every observation resolves to Unknown and records
\* a failure, and neither the compare function nor the distance function is
\* called, so no argmin is evaluated.
C15_EmptyGallery ==
    (gMatch.op = "match" /\ known_faces = <<>>) =>
        /\ outcome.res = "UNRESOLVED"
        /\ gFail.op = "fail"
        /\ ~gMatch.matched
        /\ ~gMatch.argmin

C15_Witness ==
    /\ gMatch.op = "match"
    /\ known_faces = <<>>
    /\ outcome.res = "UNRESOLVED"
    /\ Len(Get(failed_attempts, "unknown", <<>>)) >= 2

\* C16: with caching enabled and the cache below capacity, after an observation
\* was resolved to a known identity by full matching, a lookup of its
\* fingerprint finds that identity and name in the cache.
C16_CachePopulated ==
    (gMatch.op = "match" /\ ~encoding_cache.is_none
        /\ gMatch.size < MAX_CACHE_SIZE /\ gMatch.matched /\ gMatch.i # 0) =>
        gMatch.cached

iso8601(form) == form \in {"extended", "zulu", "offset", "ordinal"}

\* C19: a POST /api/timecard that carries employee_id, employee_name and a
\* valid ISO-8601 timestamp, the database working, is answered 200 with
\* success true and the entry type of the record it added; exactly one
\* TimeCard record is added, for that employee, and the Employee exists.
C19_ValidRequestRecorded ==
    (/\ response.status # 0
     /\ response.request.body
     /\ required_fields \subseteq response.request.fields
     /\ iso8601(response.request.form)
     /\ ~response.fault) =>
        /\ response.status = 200
        /\ response.success
        /\ Len(timecards) = response.cards_before + 1
        /\ timecards[Len(timecards)].employee_id = response.request.employee_id
        /\ timecards[Len(timecards)].entry_type = response.entry_type
        /\ response.request.employee_id \in DOMAIN employees

\* C20: while the 'unknown' scope is locked, an observation resolved to a known
\* identity that passes the work-window test and whose cooldown has elapsed (or
\* that has no cooldown entry) is submitted to the store, for every employee
\* id of the gallery.
C20_LockoutNeverBlocks ==
    (/\ gCool.op = "cool"
     /\ LockedAt(Get(locked_until, "unknown", None), gCool.at)
     /\ gCool.entry = None \/ gCool.at - gCool.entry >= RECOGNITION_COOLDOWN
     /\ is_work_hours(gCool.at) \/ allow_after_hours) =>
        \E t \in Tasks : pc[t] = "submit"

\* C21: on a cache miss with a gallery that is not empty the candidate is the
\* first entry of minimum distance, and the face resolves to it exactly when its
\* distance is strictly below the tolerance and compare_faces marked that entry;
\* otherwise, a distance equal to the tolerance included, it resolves to Unknown
C21_MinimumDistanceCandidate ==
    (returned.op = "match_face" /\ Len(call.known) > 0) =>
        LET d == call.face_distances
            candidate == CHOOSE i \in DOMAIN d :
                             /\ \A j \in DOMAIN d : d[i] <= d[j]
                             /\ \A j \in 1..(i - 1) : d[j] > d[i]
        IN returned.ret = IF d[candidate] < FACE_RECOGNITION_TOLERANCE
                             /\ call.matches[candidate]
                          THEN candidate
                          ELSE 0

\* a candidate at exactly the tolerance, marked by compare_faces, is Unknown
C21_Witness ==
    /\ returned.op = "match_face"
    /\ Len(call.known) > 0
    /\ \E i \in DOMAIN call.face_distances :
          /\ \A j \in DOMAIN call.face_distances :
                call.face_distances[i] <= call.face_distances[j]
          /\ call.face_distances[i] = FACE_RECOGNITION_TOLERANCE
          /\ call.matches[i]
    /\ returned.ret = 0

\* C26: is_work_hours returns true whenever the start or the end bound is absent,
\* and otherwise exactly when start <= time of day <= end, both bounds included;
\* the answer is the same under either setting of ALLOW_AFTER_HOURS
C26_WorkWindowCheck ==
    returned.op = "is_work_hours" =>
        /\ (call.start = None \/ call.end = None) => returned.ret
        /\ (call.start # None /\ call.end # None) =>
              (returned.ret <=> (call.start <= call.t /\ call.t <= call.end))

\* asked at the end bound itself, with after-hours registration not allowed
C26_Witness ==
    /\ returned.op = "is_work_hours"
    /\ call.start # None /\ call.end # None
    /\ call.start < call.end
    /\ call.t = call.end
    /\ ~allow_after_hours
    /\ returned.ret

\* C22: send_notification is called only for an observation whose submission
\* was accepted with entry type 'entrada' while NOTIFY_ON_FIRST_ENTRY is on; and
\* when the post of the notification fails or is answered other than 200, the
\* observation is still ACCEPTED, its event stored and its cooldown entry written
C22_FirstEntryNotification ==
    gNotify.op = "notify" =>
        /\ notify_on_first_entry
        /\ outcome.res = "ACCEPTED"
        /\ outcome.resps[Len(outcome.resps)] = "ok_entrada"
        /\ (gNotify.posted /\ gNotify.answer # "200") =>
              /\ outcome.employee_id \in DOMAIN last_recognition
              /\ last_recognition[outcome.employee_id] = outcome.at
              /\ Len(store) > 0
              /\ store[Len(store)].employee_id = outcome.employee_id
              /\ store[Len(store)].timestamp = outcome.at

\* the webhook fails on the notification of an accepted first entry
C22_Witness ==
    /\ gNotify.op = "notify"
    /\ gNotify.posted
    /\ gNotify.answer = "error"
    /\ outcome.res = "ACCEPTED"
    /\ outcome.employee_id \in DOMAIN last_recognition

\* C23: while a submission is in flight (the store asked, the last answer not
\* yet in) the capture loop can read the next frame
C23_CaptureNeverStalls ==
    pc[1] = "submit" => ENABLED (StartRecognition(1) \/ SkipFrame(1))

\* C24: wherever the 'unknown' failure window is read, by the threshold test of
\* register_failed_attempt or by the statistics display, every timestamp in it
\* is less than one hour older than the time of the read
C24_WindowWithinHour ==
    /\ gFail.op = "fail" =>
          \A k \in 1..Len(gFail.post_window) :
              gFail.at - gFail.post_window[k] < OneHour
    /\ gStats.op = "stats" =>
          \A k \in 1..Len(gStats.window) :
              gStats.at - gStats.window[k] < OneHour

\* C25: the label and colour returned for a face whose submission failed after
\* all retries differ from those returned for the same identity when the face
\* ends ACCEPTED, COOLDOWN or OUT_OF_HOURS
C25_LostEventShownDistinctly ==
    outcome.res = "SUBMIT_FAILED" =>
        \A res \in {"ACCEPTED", "COOLDOWN", "OUT_OF_HOURS"} :
            \A remaining \in 0..RECOGNITION_COOLDOWN :
                Shown(outcome) # face_result(res, outcome.name, remaining)

\* C27: the records of one employee alternate entrada, saida, entrada, ... in the
\* order they are recorded, whatever timestamps the requests carry
C27_AlternatesInRecordingOrder ==
    \A card \in {timecards[k] : k \in DOMAIN timecards} :
        Alternates(CardsOf(timecards, card.employee_id))

\* C28: however the handling of two requests for the same employee is
\* interleaved, no two records of one employee that are adjacent in recording
\* order are both entrada or both saida; stated for requests whose timestamps
\* increase in recording order, where timestamp order cannot be the cause
C28_ConcurrentRequestsToggle ==
    (\A i, j \in DOMAIN timecards :
        i < j => timecards[i].timestamp < timecards[j].timestamp)
    => \A card \in {timecards[k] : k \in DOMAIN timecards} :
           Alternates(CardsOf(timecards, card.employee_id))

\* C29: a request answered 400 or 500 has committed nothing, and every Employee
\* row in the store has a TimeCard row
C29_RejectedRequestChangesNothing ==
    /\ response.status \in {400, 500} => ~response.committed
    /\ \A employee_id \in DOMAIN employees :
          \E k \in DOMAIN timecards : timecards[k].employee_id = employee_id

\* C30: an observation resolved to a known identity, however it ends, leaves the
\* 'unknown' failure window and the 'unknown' lockout as they were
C30_ResolvedRecordsNoFailure ==
    [][outcome'.res \in ResolvedResults =>
          /\ Get(failed_attempts', "unknown", <<>>) = Get(failed_attempts, "unknown", <<>>)
          /\ Get(locked_until', "unknown", None) = Get(locked_until, "unknown", None)]_vars

====
